---------------------------- MODULE Spec2Model ----------------------------
(***************************************************************************)
(* Model of src/app/api/analyze/route.ts: the rule-based fallback analyzer *)
(* (analyzeWithFallback), the response parser (parseAnalysisResponse) and  *)
(* the POST request handler that chooses between the model providers and   *)
(* the fallback.                                                           *)
(*                                                                         *)
(* JavaScript strings are TLA+ strings (TLC evaluates Len, SubSeq and \o   *)
(* on them), restricted to ASCII.  A JavaScript value is a tagged record:  *)
(* Str(s), Num(n), Dec(neg, d, e), Infinity(neg), Bool(b), Null,           *)
(* Undefined, Obj(m), Arr(a).  Numbers are IEEE-754 doubles.               *)
(***************************************************************************)
EXTENDS Integers, Sequences, FiniteSets, TLC

VARIABLES
    pc,          \* the await the running call / request handler is stopped at
    request,     \* the JSON body of the HTTP request (NoRequest outside the handler)
    env,         \* process.env: which provider API keys are configured
    message,     \* the message under analysis (a string), or the request body's message
    senderInfo,  \* optional second argument of the analyzers
    context,     \* optional third argument of the analyzers
    text,        \* the text handed to parseAnalysisResponse
    signals,     \* the locals isFraud .. requestsInfo of analyzeWithFallback
    result,      \* the AnalysisResult the analyzer returned (NoResult before)
    original,    \* the AnalysisResult that was serialized (round trip)
    calls,       \* the analyzers called so far by the handler, in order
    response     \* the HTTP response of the handler (NoResponse before)

vars == <<pc, request, env, message, senderInfo, context, text, signals, result,
          original, calls, response>>

----------------------------------------------------------------------------
(* JavaScript values *)

Str(s) == [t |-> "string", s |-> s]
Num(n) == [t |-> "number", n |-> n]
Undefined == [t |-> "undefined"]
Null == [t |-> "null"]
Bool(b) == [t |-> "boolean", b |-> b]
\* Number values are IEEE-754 doubles.  Num(n) is an integer of at most nine
\* digits.  Dec is any other finite, non-zero double, written in its
\* shortest decimal form (the digits Number::toString prints):
\* (-1)^neg * digits * 10^exp10, digits without leading or trailing zeros.
\* Zero is Num(0) (0 and -0 behave alike under ||, JSON.stringify and ===).
Dec(neg, digits, exp10) == [t |-> "number", neg |-> neg, digits |-> digits, exp10 |-> exp10]
\* Infinity and -Infinity
Infinity(neg) == [t |-> "number", neg |-> neg, inf |-> TRUE]
\* an object is the sequence of its <<key, value>> members in source order
Obj(m) == [t |-> "object", m |-> m]
Arr(a) == [t |-> "array", a |-> a]

\* ToBoolean, as used by the || operator
Truthy(v) ==
    CASE v.t = "undefined" -> FALSE
      [] v.t = "null" -> FALSE
      [] v.t = "boolean" -> v.b
      [] v.t = "number" -> v # Num(0)
      [] v.t = "string" -> v.s # ""
      [] OTHER -> TRUE

\* a || b
OrElse(a, b) == IF Truthy(a) THEN a ELSE b

NoRequest == [t |-> "none"]
NoResult == [t |-> "none"]
NoResponse == [t |-> "none"]
NoSignals == [t |-> "none"]

----------------------------------------------------------------------------
(* String primitives *)

UpperAlpha == "ABCDEFGHIJKLMNOPQRSTUVWXYZ"
LowerAlpha == "abcdefghijklmnopqrstuvwxyz"
Digits == "0123456789"

CharAt(s, i) == SubSeq(s, i, i)

\* position of the one-character string c in s, 0 when absent
IndexOfChar(s, c) ==
    IF \E i \in 1..Len(s) : CharAt(s, i) = c
    THEN CHOOSE i \in 1..Len(s) : CharAt(s, i) = c /\ \A j \in 1..(i-1) : CharAt(s, j) # c
    ELSE 0

LowerChar(c) ==
    LET i == IndexOfChar(UpperAlpha, c) IN IF i = 0 THEN c ELSE CharAt(LowerAlpha, i)

\* String.prototype.toLowerCase on ASCII text
RECURSIVE ToLowerCase(_)
ToLowerCase(s) ==
    IF Len(s) = 0 THEN ""
    ELSE IF Len(s) = 1 THEN LowerChar(s)
    ELSE LET h == Len(s) \div 2
         IN ToLowerCase(SubSeq(s, 1, h)) \o ToLowerCase(SubSeq(s, h + 1, Len(s)))

\* the least index i >= from with CharAt(s, i) in chars, 0 when there is none
FirstOf(s, from, chars) ==
    IF \E i \in from..Len(s) : CharAt(s, i) \in chars
    THEN CHOOSE i \in from..Len(s) :
             CharAt(s, i) \in chars /\ \A j \in from..(i-1) : CharAt(s, j) \notin chars
    ELSE 0

\* the greatest index i with CharAt(s, i) = c, 0 when there is none
LastIndexOfChar(s, c) ==
    IF \E i \in 1..Len(s) : CharAt(s, i) = c
    THEN CHOOSE i \in 1..Len(s) :
             CharAt(s, i) = c /\ \A j \in (i+1)..Len(s) : CharAt(s, j) # c
    ELSE 0

\* s has k at position i
StartsWithAt(s, i, k) ==
    i + Len(k) - 1 <= Len(s) /\ SubSeq(s, i, i + Len(k) - 1) = k

\* the characters String.prototype.trim and \s treat as white space
WhiteSpace == {" ", "\t", "\n", "\r", "\f"}

\* String.prototype.trim
Trim(s) ==
    IF \A i \in 1..Len(s) : CharAt(s, i) \in WhiteSpace THEN ""
    ELSE LET a == CHOOSE i \in 1..Len(s) :
                      CharAt(s, i) \notin WhiteSpace
                      /\ \A j \in 1..(i-1) : CharAt(s, j) \in WhiteSpace
             b == CHOOSE i \in 1..Len(s) :
                      CharAt(s, i) \notin WhiteSpace
                      /\ \A j \in (i+1)..Len(s) : CharAt(s, j) \in WhiteSpace
         IN SubSeq(s, a, b)

\* String.prototype.split('\n')
RECURSIVE SplitLines(_)
SplitLines(s) ==
    LET i == FirstOf(s, 1, {"\n"})
    IN IF i = 0 THEN <<s>>
       ELSE <<SubSeq(s, 1, i - 1)>> \o SplitLines(SubSeq(s, i + 1, Len(s)))

\* the value of a string of at most nine decimal digits
RECURSIVE DigitsValue(_)
DigitsValue(d) ==
    IF Len(d) = 0 THEN 0
    ELSE 10 * DigitsValue(SubSeq(d, 1, Len(d) - 1))
         + (IndexOfChar(Digits, CharAt(d, Len(d))) - 1)

DigitSet == {CharAt(Digits, i) : i \in 1..10}

\* the index after the run of decimal digits that starts at i
DigitRunEnd(s, i) ==
    IF \A j \in i..Len(s) : CharAt(s, j) \in DigitSet THEN (IF i > Len(s) THEN i ELSE Len(s) + 1)
    ELSE CHOOSE j \in i..Len(s) :
             CharAt(s, j) \notin DigitSet /\ \A k \in i..(j - 1) : CharAt(s, k) \in DigitSet

\* n copies of s
RECURSIVE Repeat(_, _)
Repeat(s, n) ==
    IF n = 0 THEN ""
    ELSE IF n % 2 = 1 THEN s \o Repeat(s, n - 1)
    ELSE Repeat(s \o s, n \div 2)

\* String.prototype.includes
Includes(s, k) ==
    \E i \in 1..(Len(s) - Len(k) + 1) : SubSeq(s, i, i + Len(k) - 1) = k

\* Array.prototype.some(keyword => s.includes(keyword))
SomeIncluded(keywords, s) ==
    \E i \in 1..Len(keywords) : Includes(s, keywords[i])

\* /a|b|c/.test(s): an alternation of literal strings, case-sensitive
RegexTest(alternatives, s) ==
    \E i \in 1..Len(alternatives) : Includes(s, alternatives[i])

\* /a|b|c/i.test(s): the same, ignoring ASCII case (alternatives are lower case)
RegexTestI(alternatives, s) ==
    RegexTest(alternatives, ToLowerCase(s))

----------------------------------------------------------------------------
(* JSON.parse, on ASCII text.  A parse step returns ParseFail (a           *)
(* SyntaxError) or ParseOk(v, pos): the value read and the index after it. *)

ParseFail == [ok |-> FALSE]
ParseOk(v, pos) == [ok |-> TRUE, v |-> v, pos |-> pos]

JsonWhiteSpace == {" ", "\t", "\n", "\r"}
ControlChars == {"\t", "\n", "\r", "\f"}
\* stands for every character outside the modelled alphabet (printable
\* ASCII but the grave accent; tab, line feed, form feed, carriage return)
Replacement == "?"

\* the index of the first character from i on that is no white space
SkipWs(s, i) ==
    IF \A j \in i..Len(s) : CharAt(s, j) \in JsonWhiteSpace
    THEN (IF i > Len(s) THEN i ELSE Len(s) + 1)
    ELSE CHOOSE j \in i..Len(s) :
             CharAt(s, j) \notin JsonWhiteSpace
             /\ \A k \in i..(j - 1) : CharAt(s, k) \in JsonWhiteSpace

\* d without its zeros at the end
StripTrailingZeros(d) ==
    IF \A i \in 1..Len(d) : CharAt(d, i) = "0" THEN ""
    ELSE SubSeq(d, 1, CHOOSE i \in 1..Len(d) :
                          CharAt(d, i) # "0" /\ \A j \in (i + 1)..Len(d) : CharAt(d, j) = "0")

\* d without its zeros at the start
StripLeadingZeros(d) ==
    IF \A i \in 1..Len(d) : CharAt(d, i) = "0" THEN ""
    ELSE SubSeq(d, CHOOSE i \in 1..Len(d) :
                       CharAt(d, i) # "0" /\ \A j \in 1..(i - 1) : CharAt(d, j) = "0",
                Len(d))

(* Natural numbers of any size: sequences of limbs in 0..999, least        *)
(* significant first, without a leading zero limb (zero is <<>>).          *)

\* x without its zero limbs at the top
BigStrip(x) ==
    IF \A i \in 1..Len(x) : x[i] = 0 THEN <<>>
    ELSE SubSeq(x, 1, CHOOSE i \in 1..Len(x) :
                          x[i] # 0 /\ \A j \in (i + 1)..Len(x) : x[j] = 0)

\* the big natural with the coefficients x (naturals below 2^31) in base
\* 1000: three rounds of carries leave limbs of at most 1000 and carries of
\* at most 1, which ripple through limbs equal to 999
BigNorm(x) ==
    IF x = <<>> THEN <<>>
    ELSE LET n == Len(x) + 3
             At(i) == IF i >= 1 /\ i <= Len(x) THEN x[i] ELSE 0
             R1(i) == (At(i) % 1000) + ((At(i - 1) \div 1000) % 1000)
                      + (At(i - 2) \div 1000000)
             R2(i) == (R1(i) % 1000) + (R1(i - 1) \div 1000)
             R3(i) == (R2(i) % 1000) + (R2(i - 1) \div 1000)
             CarryIn(i) ==
                 /\ i > 1
                 /\ \/ R3(i - 1) >= 1000
                    \/ /\ R3(i - 1) = 999
                       /\ \E j \in 1..(i - 2) :
                             R3(j) >= 1000 /\ \A k \in (j + 1)..(i - 2) : R3(k) = 999
         IN BigStrip(SubSeq([i \in 1..n |->
                                (R3(i) + (IF CarryIn(i) THEN 1 ELSE 0)) % 1000], 1, n))

\* the big natural written as the string of decimal digits d
BigOfDigits(d) ==
    LET n == (Len(d) + 2) \div 3
        Limb(i) == DigitsValue(SubSeq(d, IF Len(d) - 3 * i + 1 < 1 THEN 1
                                         ELSE Len(d) - 3 * i + 1,
                                      Len(d) - 3 * (i - 1)))
    IN BigStrip(SubSeq([i \in 1..n |-> Limb(i)], 1, n))

\* the decimal digits of limbs lo..hi of x, three for each limb
RECURSIVE LimbDigits(_, _, _)
LimbDigits(x, lo, hi) ==
    IF lo > hi THEN ""
    ELSE IF lo = hi
    THEN (IF x[lo] < 10 THEN "00" ELSE IF x[lo] < 100 THEN "0" ELSE "") \o ToString(x[lo])
    ELSE LimbDigits(x, (lo + hi) \div 2 + 1, hi) \o LimbDigits(x, lo, (lo + hi) \div 2)

BigLimb(x, i) == IF i >= 1 /\ i <= Len(x) THEN x[i] ELSE 0

BigAdd(a, b) ==
    IF a = <<>> THEN b
    ELSE IF b = <<>> THEN a
    ELSE LET n == IF Len(a) > Len(b) THEN Len(a) ELSE Len(b)
         IN BigNorm(SubSeq([i \in 1..n |-> BigLimb(a, i) + BigLimb(b, i)], 1, n))

\* a <= b
BigLeq(a, b) ==
    \/ Len(a) < Len(b)
    \/ a = b
    \/ /\ Len(a) = Len(b)
       /\ LET i == CHOOSE i \in 1..Len(a) :
                       a[i] # b[i] /\ \A j \in (i + 1)..Len(a) : a[j] = b[j]
          IN a[i] < b[i]

\* a - b, for b <= a: a plus the complement of b, less 1000^Len(a)
BigSub(a, b) ==
    IF b = <<>> THEN a
    ELSE LET n == Len(a)
             sum == BigNorm(SubSeq([i \in 1..n |-> a[i] + (999 - BigLimb(b, i))
                                                   + (IF i = 1 THEN 1 ELSE 0)], 1, n))
         IN BigStrip(SubSeq(sum, 1, n))

\* x * k, for 0 <= k <= 2000000
BigTimes(x, k) ==
    IF x = <<>> \/ k = 0 THEN <<>>
    ELSE BigNorm(SubSeq([i \in 1..Len(x) |-> x[i] * k], 1, Len(x)))

RECURSIVE IntPow(_, _)
IntPow(b, k) == IF k = 0 THEN 1 ELSE b * IntPow(b, k - 1)

\* the sum of a[i] * b[k + 1 - i] for i in lo..hi
RECURSIVE SumOfProducts(_, _, _, _, _)
SumOfProducts(a, b, k, lo, hi) ==
    IF lo > hi THEN 0
    ELSE IF lo = hi THEN a[lo] * b[k + 1 - lo]
    ELSE SumOfProducts(a, b, k, lo, (lo + hi) \div 2)
         + SumOfProducts(a, b, k, (lo + hi) \div 2 + 1, hi)

\* a * b, for operands of at most 2000 limbs
BigMul(a, b) ==
    IF a = <<>> \/ b = <<>> THEN <<>>
    ELSE LET n == Len(a) + Len(b) - 1
             Lo(k) == IF k > Len(b) THEN k + 1 - Len(b) ELSE 1
             Hi(k) == IF k < Len(a) THEN k ELSE Len(a)
         IN BigNorm(SubSeq([k \in 1..n |-> SumOfProducts(a, b, k, Lo(k), Hi(k))], 1, n))

\* b^k as a big natural, for b in {2, 5}
RECURSIVE BigPow(_, _)
BigPow(b, k) ==
    IF k <= 8 THEN BigNorm(<<IntPow(b, k)>>)
    ELSE BigMul(BigPow(b, k \div 2), BigPow(b, k - k \div 2))

\* the greatest t with t * b <= r, for 0 < b and r < 1000 * b; the leading
\* limbs of r and b bound t within two units
QuotientLimb(r, b) ==
    LET n == Len(b)
        rtop == 1000000 * BigLimb(r, n + 1) + 1000 * BigLimb(r, n) + BigLimb(r, n - 1)
        btop == 1000 * BigLimb(b, n) + BigLimb(b, n - 1)
        lo == rtop \div (btop + 1)
        hi == IF (rtop + 1) \div btop > 999 THEN 999 ELSE (rtop + 1) \div btop
    IN IF Len(r) < n THEN 0
       ELSE CHOOSE t \in lo..hi :
                /\ BigLeq(BigTimes(b, t), r)
                /\ t = hi \/ ~BigLeq(BigTimes(b, t + 1), r)

\* quotient and remainder of a by b, for a < b * 1000^p: the limbs of the
\* quotient from limb p down, q holding the limbs found so far
RECURSIVE BigDivFrom(_, _, _, _)
BigDivFrom(a, b, p, q) ==
    IF p = 0 THEN [q |-> BigStrip(q), r |-> a]
    ELSE LET bs == SubSeq([i \in 1..(p - 1) |-> 0], 1, p - 1) \o b
             t == QuotientLimb(a, bs)
         IN BigDivFrom(BigSub(a, BigTimes(bs, t)), b, p - 1, <<t>> \o q)

\* the element of a set of one element.  Only({ F(x) : x \in {e} }) is F(e):
\* it names the value of e, worked out once, as x.
Only(S) == CHOOSE x \in S : TRUE

\* the IEEE-754 double nearest to digits * 10^exp10 (ties to even), for
\* digits without leading zero and a value in 10^-324 .. 10^309: the record
\* [m, e] with value m * 2^e, m < 2^53 and m >= 2^52 unless e = -1074;
\* [inf |-> TRUE] when the value rounds to Infinity.  The quotient q of the
\* value by 2^qx has at least 55 bits unless qx = -1075; its s lowest bits
\* and the remainder decide the rounding of the other 53.
NearestDouble(digits, exp10) ==
    LET est == ((Len(digits) + exp10 - 1) * 33219) \div 10000
        qx == IF est - 56 < -1075 THEN -1075 ELSE est - 56
        Low(h) == BigLimb(h.r, 1) + 1000 * BigLimb(h.r, 2)
        Up(h, half, inexact) ==
            Low(h) > half \/ (Low(h) = half /\ (inexact \/ BigLimb(h.q, 1) % 2 = 1))
        Rounded(m, e) ==
            IF m = BigPow(2, 53)
            THEN (IF e + 1 > 971 THEN [inf |-> TRUE]
                  ELSE [inf |-> FALSE, m |-> BigPow(2, 52), e |-> e + 1])
            ELSE IF e > 971 THEN [inf |-> TRUE]
            ELSE [inf |-> FALSE, m |-> m, e |-> e]
    IN Only({
         Only({
           Only({ Rounded(IF Up(h, IntPow(2, s - 1), d.r # <<>>) THEN BigAdd(h.q, <<1>>)
                          ELSE h.q,
                          qx + s) :
                  h \in {BigDivFrom(d.q, <<IntPow(2, s)>>, 7, <<>>)} }) :
           s \in {CHOOSE b \in 1..10 :
                      /\ ~BigLeq(BigPow(2, 53 + b), d.q)
                      /\ \A k \in 1..(b - 1) : BigLeq(BigPow(2, 53 + k), d.q)} }) :
         d \in {BigDivFrom(
                   IF qx < 0
                   THEN BigMul(BigOfDigits(digits \o Repeat("0", IF exp10 > 0 THEN exp10 ELSE 0)),
                               BigPow(2, -qx))
                   ELSE BigOfDigits(digits \o Repeat("0", IF exp10 > 0 THEN exp10 ELSE 0)),
                   IF qx > 0
                   THEN BigMul(BigOfDigits("1" \o Repeat("0", IF exp10 < 0 THEN -exp10 ELSE 0)),
                               BigPow(2, qx))
                   ELSE BigOfDigits("1" \o Repeat("0", IF exp10 < 0 THEN -exp10 ELSE 0)),
                   7, <<>>)} })

\* the decimal digits t and the exponent of ten of the integer, among those
\* from lo to hi (both taken when incl), that is written with the fewest
\* digits other than zeros at the end and, of these, is nearest to v (the
\* even one of two that are as near); sv is v in decimal digits.  The candidates with k digits are v cut to k digits
\* and the next one up.
Closest(v, lo, hi, incl, sv) ==
    LET Down(k) == BigOfDigits(SubSeq(sv, 1, k) \o Repeat("0", Len(sv) - k))
        Up(k) == BigAdd(BigOfDigits(SubSeq(sv, 1, k) \o Repeat("0", Len(sv) - k)),
                        BigOfDigits("1" \o Repeat("0", Len(sv) - k)))
        Inside(x) == BigLeq(lo, x) /\ BigLeq(x, hi) /\ (incl \/ (lo # x /\ hi # x))
        \* of two candidates that both fit, the nearer to v and, when they
        \* are as near, the one whose last digit is even
        Nearer(dn, up, dnEven) ==
            IF BigLeq(lo, dn) /\ (incl \/ lo # dn)
            THEN (IF /\ BigLeq(up, hi) /\ (incl \/ hi # up)
                     /\ \/ ~BigLeq(BigSub(v, dn), BigSub(up, v))
                        \/ BigSub(v, dn) = BigSub(up, v) /\ ~dnEven
                  THEN up ELSE dn)
            ELSE up
        Strip(c, t) == [digits |-> t, zeros |-> Len(c) - Len(t)]
    IN Only({ Only({ Strip(c, StripTrailingZeros(c)) :
                     c \in {IF k >= Len(sv) THEN sv
                            ELSE Only({ StripLeadingZeros(LimbDigits(best, 1, Len(best))) :
                                        best \in {Only({
                                            Nearer(dn,
                                                   BigAdd(dn, BigOfDigits(
                                                       "1" \o Repeat("0", Len(sv) - k))),
                                                   IndexOfChar(Digits, CharAt(sv, k)) % 2 = 1) :
                                            dn \in {Down(k)} })} })} }) :
              k \in {CHOOSE n \in 1..Len(sv) :
                         /\ n >= Len(sv) \/ Inside(Down(n)) \/ Inside(Up(n))
                         /\ \A j \in 1..(n - 1) : ~(Inside(Down(j)) \/ Inside(Up(j)))} })

\* the shortest decimal [digits, exp10] that rounds to the double m * 2^e
\* (Number::toString), for m > 0.  In units g = 2^(e - 2), scaled by a power
\* of ten to integers, the double is v and every real in lo..hi rounds to it
\* (the bounds themselves when m is even); the candidates with k digits are
\* v cut to k digits and the next one up, and the closest one is taken.
ShortestDecimal(m, e) ==
    LET Shortest(c) == [digits |-> c.digits,
                        exp10 |-> (IF e - 2 < 0 THEN e - 2 ELSE 0) + c.zeros]
    IN Only({
         Only({ Shortest(Closest(v,
                                 IF m = BigPow(2, 52) /\ e > -1074 THEN BigSub(v, g)
                                 ELSE BigSub(v, BigTimes(g, 2)),
                                 BigAdd(v, BigTimes(g, 2)),
                                 m[1] % 2 = 0,
                                 StripLeadingZeros(LimbDigits(v, 1, Len(v))))) :
                v \in {BigMul(BigTimes(m, 4), g)} }) :
         g \in {IF e - 2 >= 0 THEN BigPow(2, e - 2) ELSE BigPow(5, 2 - e)} })

\* the number value with the decimal digits d (no leading or trailing zero)
\* times 10^e: an integer of at most nine digits as Num, any other as Dec
NumberValue(neg, d, e) ==
    IF e >= 0 /\ Len(d) + e <= 9
    THEN Num((IF neg THEN -1 ELSE 1) * DigitsValue(d) * IntPow(10, e))
    ELSE Dec(neg, d, e)

\* the Number value of the numeral (-1)^neg * digits * 10^exp10: the double
\* nearest to it.  Past 800 digits the rest of the numeral only matters by
\* being zero or not; a value of 10^309 or more is Infinity and one below
\* 10^-324 is 0; a numeral of at most 15 digits well inside the range of the
\* normal doubles is the shortest decimal form of its own double.
MakeNumber(neg, digits, exp10) ==
    LET Shortest(sd) == NumberValue(neg, sd.digits, sd.exp10)
        \* m: the digits of the numeral without the zeros at its ends, cut
        \* past 800; e: the exponent of ten that goes with m
        Sized(m, e) ==
            IF m = "" THEN Num(0)
            ELSE IF Len(m) + e > 309 THEN Infinity(neg)
            ELSE IF Len(m) + e < -323 THEN Num(0)
            ELSE IF Len(m) <= 15 /\ Len(m) + e >= -290 /\ Len(m) + e <= 290
            THEN NumberValue(neg, m, e)
            ELSE Only({ IF d.inf THEN Infinity(neg)
                        ELSE IF d.m = <<>> THEN Num(0)
                        ELSE Shortest(ShortestDecimal(d.m, d.e)) :
                        d \in {NearestDouble(m, e)} })
    IN Only({ Only({ Sized(IF Len(m0) > 800 THEN SubSeq(m0, 1, 800) \o "1" ELSE m0,
                           exp10 + (Len(digits) - Len(t))
                           + (IF Len(m0) > 800 THEN Len(m0) - 801 ELSE 0)) :
                     m0 \in {StripLeadingZeros(t)} }) :
              t \in {StripTrailingZeros(digits)} })

\* parseInt of a run of decimal digits (line 127): the double nearest to the
\* integer written
parseInt(run) == MakeNumber(FALSE, run, 0)

\* -? (0 | [1-9][0-9]*) (. [0-9]+)? ([eE] [+-]? [0-9]+)?
ParseNumber(s, i) ==
    LET neg == CharAt(s, i) = "-"
        a == IF neg THEN i + 1 ELSE i
        b == IF a <= Len(s) /\ CharAt(s, a) = "0" THEN a + 1 ELSE DigitRunEnd(s, a)
        hasFrac == b <= Len(s) /\ CharAt(s, b) = "."
        c == IF hasFrac THEN DigitRunEnd(s, b + 1) ELSE b
        hasExp == c <= Len(s) /\ CharAt(s, c) \in {"e", "E"}
        signed == hasExp /\ c + 1 <= Len(s) /\ CharAt(s, c + 1) \in {"+", "-"}
        e0 == IF signed THEN c + 2 ELSE c + 1
        d == IF hasExp THEN DigitRunEnd(s, e0) ELSE c
        fracDigits == IF hasFrac THEN SubSeq(s, b + 1, c - 1) ELSE ""
        expDigits == StripLeadingZeros(SubSeq(s, e0, d - 1))
        \* an exponent of more than six digits moves any numeral of a text
        \* of less than 999000 characters as far out of range as 999999 does
        expValue == IF hasExp
                    THEN (IF signed /\ CharAt(s, c + 1) = "-" THEN -1 ELSE 1)
                         * (IF Len(expDigits) > 6 THEN 999999 ELSE DigitsValue(expDigits))
                    ELSE 0
    IN IF b = a \/ (hasFrac /\ c = b + 1) \/ (hasExp /\ d = e0) THEN ParseFail
       ELSE ParseOk(MakeNumber(neg, SubSeq(s, a, b - 1) \o fracDigits,
                               expValue - Len(fracDigits)), d)

RECURSIVE BackslashesBefore(_, _, _)
BackslashesBefore(s, lo, j) ==
    IF j - 1 >= lo /\ CharAt(s, j - 1) = "\\"
    THEN 1 + BackslashesBefore(s, lo, j - 1) ELSE 0

\* the index of the quote that closes the string opened at i, 0 when none
ClosingQuote(s, i) ==
    LET Closes(j) == CharAt(s, j) = "\"" /\ BackslashesBefore(s, i + 1, j) % 2 = 0
    IN IF \E j \in (i + 1)..Len(s) : Closes(j)
       THEN CHOOSE j \in (i + 1)..Len(s) :
                Closes(j) /\ \A k \in (i + 1)..(j - 1) : ~Closes(k)
       ELSE 0

\* the value of a hexadecimal digit, -1 for any other character
HexValue(c) == IndexOfChar("0123456789abcdef", LowerChar(c)) - 1

\* the character of code n
CharOfCode(n) ==
    IF n >= 32 /\ n <= 95
    THEN CharAt(" !\"#$%&'()*+,-./0123456789:;<=>?@ABCDEFGHIJKLMNOPQRSTUVWXYZ[\\]^_", n - 31)
    ELSE IF n >= 97 /\ n <= 126 THEN CharAt("abcdefghijklmnopqrstuvwxyz{|}~", n - 96)
    ELSE IF n = 9 THEN "\t"
    ELSE IF n = 10 THEN "\n"
    ELSE IF n = 12 THEN "\f"
    ELSE IF n = 13 THEN "\r"
    ELSE Replacement

SimpleEscapeChars == {"\"", "\\", "/", "b", "f", "n", "r", "t"}

SimpleEscape(e) ==
    CASE e = "n" -> "\n"
      [] e = "t" -> "\t"
      [] e = "r" -> "\r"
      [] e = "f" -> "\f"
      [] e = "b" -> Replacement
      [] OTHER -> e

\* the characters between the quotes of a JSON string, unescaped
RECURSIVE DecodeBody(_)
DecodeBody(b) ==
    LET k == FirstOf(b, 1, ControlChars \cup {"\\"})
    IN IF k = 0 THEN [ok |-> TRUE, s |-> b]
       ELSE IF CharAt(b, k) # "\\" \/ k = Len(b) THEN [ok |-> FALSE]
       ELSE LET e == CharAt(b, k + 1)
                isU == e = "u"
                okU == k + 5 <= Len(b)
                       /\ \A j \in (k + 2)..(k + 5) : HexValue(CharAt(b, j)) >= 0
                code == 4096 * HexValue(CharAt(b, k + 2)) + 256 * HexValue(CharAt(b, k + 3))
                        + 16 * HexValue(CharAt(b, k + 4)) + HexValue(CharAt(b, k + 5))
                ch == IF isU THEN CharOfCode(code) ELSE SimpleEscape(e)
                rest == DecodeBody(SubSeq(b, (IF isU THEN k + 6 ELSE k + 2), Len(b)))
            IN IF (isU /\ ~okU) \/ (~isU /\ e \notin SimpleEscapeChars) THEN [ok |-> FALSE]
               ELSE IF ~rest.ok THEN [ok |-> FALSE]
               ELSE [ok |-> TRUE, s |-> SubSeq(b, 1, k - 1) \o ch \o rest.s]

\* the string whose body, decoded, is d and whose closing quote is at c
StringFrom(d, c) == IF d.ok THEN ParseOk(Str(d.s), c + 1) ELSE ParseFail

\* the string closed at c, 0 when it is never closed
StringUpTo(s, i, c) ==
    IF c = 0 THEN ParseFail ELSE StringFrom(DecodeBody(SubSeq(s, i + 1, c - 1)), c)

ParseString(s, i) == StringUpTo(s, i, ClosingQuote(s, i))

RECURSIVE ParseValue(_, _), ParseElements(_, _, _), ParseMembers(_, _, _)

\* after the element r of an array: "]" ends it, "," announces the next one
AfterElement(s, acc, r) ==
    IF ~r.ok THEN ParseFail
    ELSE LET j == SkipWs(s, r.pos)
         IN IF j > Len(s) THEN ParseFail
            ELSE IF CharAt(s, j) = "]" THEN ParseOk(Arr(Append(acc, r.v)), j + 1)
            ELSE IF CharAt(s, j) = ","
            THEN ParseElements(s, SkipWs(s, j + 1), Append(acc, r.v))
            ELSE ParseFail

\* the elements of an array, from the first character of the next element
ParseElements(s, i, acc) == AfterElement(s, acc, ParseValue(s, i))

\* after the value r of the member named key: "}" ends the object, ","
\* announces the next member
AfterMemberValue(s, acc, key, r) ==
    IF ~r.ok THEN ParseFail
    ELSE LET j == SkipWs(s, r.pos)
             m == Append(acc, <<key, r.v>>)
         IN IF j > Len(s) THEN ParseFail
            ELSE IF CharAt(s, j) = "}" THEN ParseOk(Obj(m), j + 1)
            ELSE IF CharAt(s, j) = "," THEN ParseMembers(s, SkipWs(s, j + 1), m)
            ELSE ParseFail

\* after the key k of a member: a colon, then the value
AfterKey(s, acc, k) ==
    IF ~k.ok THEN ParseFail
    ELSE LET c == SkipWs(s, k.pos)
         IN IF c > Len(s) THEN ParseFail
            ELSE IF CharAt(s, c) # ":" THEN ParseFail
            ELSE AfterMemberValue(s, acc, k.v.s, ParseValue(s, SkipWs(s, c + 1)))

\* the members of an object, from the first character of the next key
ParseMembers(s, i, acc) ==
    AfterKey(s, acc, IF i <= Len(s) /\ CharAt(s, i) = "\"" THEN ParseString(s, i)
                     ELSE ParseFail)

ParseValue(s, i) ==
    IF i > Len(s) THEN ParseFail
    ELSE LET c == CharAt(s, i)
             j == SkipWs(s, i + 1)
         IN CASE c = "{" -> IF j <= Len(s) /\ CharAt(s, j) = "}"
                            THEN ParseOk(Obj(<<>>), j + 1)
                            ELSE ParseMembers(s, j, <<>>)
              [] c = "[" -> IF j <= Len(s) /\ CharAt(s, j) = "]"
                            THEN ParseOk(Arr(<<>>), j + 1)
                            ELSE ParseElements(s, j, <<>>)
              [] c = "\"" -> ParseString(s, i)
              [] c = "t" -> IF StartsWithAt(s, i, "true")
                            THEN ParseOk(Bool(TRUE), i + 4) ELSE ParseFail
              [] c = "f" -> IF StartsWithAt(s, i, "false")
                            THEN ParseOk(Bool(FALSE), i + 5) ELSE ParseFail
              [] c = "n" -> IF StartsWithAt(s, i, "null")
                            THEN ParseOk(Null, i + 4) ELSE ParseFail
              [] c = "-" \/ c \in DigitSet -> ParseNumber(s, i)
              [] OTHER -> ParseFail

\* the value r must be followed by white space only
WholeText(s, r) ==
    IF ~r.ok THEN ParseFail
    ELSE IF SkipWs(s, r.pos) # Len(s) + 1 THEN ParseFail
    ELSE r

\* JSON.parse(s): one value, white space around it, nothing else
JSONParse(s) == WholeText(s, ParseValue(s, SkipWs(s, 1)))

\* parsed.key: the last member with that key, undefined when there is none
GetProp(v, key) ==
    IF v.t # "object" THEN Undefined
    ELSE LET idx == {i \in 1..Len(v.m) : v.m[i][1] = key}
         IN IF idx = {} THEN Undefined
            ELSE v.m[CHOOSE i \in idx : \A j \in idx : j <= i][2]

----------------------------------------------------------------------------
(* parseAnalysisResponse *)

DefaultRiskLevel == "Unknown"
DefaultReason == "No reason provided"
DefaultBusinessImpact == "No impact assessment provided"
DefaultRecommendedAction == "No action recommended"
DefaultBusinessInsight == "No insight provided"

\* line 76: text.match(/\{[\s\S]*\}/), from the first { to the last }; null
\* when no } follows a {
JsonMatch(txt) ==
    LET a == IndexOfChar(txt, "{")
        b == LastIndexOfChar(txt, "}")
    IN IF a > 0 /\ b > a THEN Str(SubSeq(txt, a, b)) ELSE Null

\* A result is a record of the seven fields of AnalysisResult (an absent
\* property reads as undefined) and keys, the names of the properties the
\* object has, in the order they were created.

\* the property order of the object literals of lines 79-87 and 313-321
FieldOrder == <<"riskLevel", "reason", "businessImpact", "recommendedAction",
                "suggestedReply", "leadQualityScore", "businessInsight">>

\* result.f = v: a new property goes after the ones the object has
SetField(r, f, v) ==
    [r EXCEPT ![f] = v,
              !.keys = IF \E i \in 1..Len(r.keys) : r.keys[i] = f THEN r.keys
                       ELSE Append(r.keys, f)]

\* FromParsed that takes the fields as they are, without the || defaults
FromParsed_NoDefaults(parsed) ==
    [riskLevel         |-> GetProp(parsed, "riskLevel"),
     reason            |-> GetProp(parsed, "reason"),
     businessImpact    |-> GetProp(parsed, "businessImpact"),
     recommendedAction |-> GetProp(parsed, "recommendedAction"),
     suggestedReply    |-> GetProp(parsed, "suggestedReply"),
     leadQualityScore  |-> GetProp(parsed, "leadQualityScore"),
     businessInsight   |-> GetProp(parsed, "businessInsight"),
     keys              |-> FieldOrder]

\* lines 79-87: the result built from the parsed object
FromParsed(parsed) ==
    [riskLevel         |-> OrElse(GetProp(parsed, "riskLevel"), Str(DefaultRiskLevel)),
     reason            |-> OrElse(GetProp(parsed, "reason"), Str(DefaultReason)),
     businessImpact    |-> OrElse(GetProp(parsed, "businessImpact"),
                                  Str(DefaultBusinessImpact)),
     recommendedAction |-> OrElse(GetProp(parsed, "recommendedAction"),
                                  Str(DefaultRecommendedAction)),
     suggestedReply    |-> OrElse(GetProp(parsed, "suggestedReply"), Undefined),
     leadQualityScore  |-> OrElse(GetProp(parsed, "leadQualityScore"), Num(0)),
     businessInsight   |-> OrElse(GetProp(parsed, "businessInsight"),
                                  Str(DefaultBusinessInsight)),
     keys              |-> FieldOrder]

\* lines 95-101: the result the line scan starts from; it has no
\* suggestedReply and no leadQualityScore property
EmptyResult ==
    [riskLevel         |-> Str(DefaultRiskLevel),
     reason            |-> Str(""),
     businessImpact    |-> Str(""),
     recommendedAction |-> Str(""),
     suggestedReply    |-> Undefined,
     leadQualityScore  |-> Undefined,
     businessInsight   |-> Str(""),
     keys              |-> <<"riskLevel", "reason", "businessImpact", "recommendedAction",
                             "businessInsight">>]

\* trimmed.match(/^label/i); labels are written in lower case
MatchesLabel(trimmed, label) ==
    Len(trimmed) >= Len(label) /\ ToLowerCase(SubSeq(trimmed, 1, Len(label))) = label

\* trimmed.replace(/^label/i, '').trim()
StripLabel(trimmed, label) ==
    Trim(SubSeq(trimmed, Len(label) + 1, Len(trimmed)))

\* trimmed.replace(/^Suggested Reply[^:]*:/i, '').trim(): the text after the
\* first colon that follows the label; the whole line when there is no colon
StripReplyLabel(trimmed) ==
    LET colon == FirstOf(trimmed, Len("suggested reply") + 1, {":"})
    IN IF colon = 0 THEN trimmed
       ELSE Trim(SubSeq(trimmed, colon + 1, Len(trimmed)))

\* trimmed.match(/(\d+)/): the first run of digits, "" when there is none
FirstDigitRun(trimmed) ==
    LET d == FirstOf(trimmed, 1, DigitSet)
    IN IF d = 0 THEN "" ELSE SubSeq(trimmed, d, DigitRunEnd(trimmed, d) - 1)

\* lines 106-141: one iteration of the loop, on the scan state
\* [result, currentField]
ScanLine(st, line) ==
    LET trimmed == Trim(line)
        r == st.result
        Labelled(field, label) ==
            [currentField |-> field,
             result |-> SetField(r, field, Str(StripLabel(trimmed, label)))]
    IN IF MatchesLabel(trimmed, "risk level:") THEN Labelled("riskLevel", "risk level:")
       ELSE IF MatchesLabel(trimmed, "reason:") THEN Labelled("reason", "reason:")
       ELSE IF MatchesLabel(trimmed, "business impact:")
       THEN Labelled("businessImpact", "business impact:")
       ELSE IF MatchesLabel(trimmed, "recommended action:")
       THEN Labelled("recommendedAction", "recommended action:")
       ELSE IF MatchesLabel(trimmed, "suggested reply")
       THEN LET reply == StripReplyLabel(trimmed)
            IN [currentField |-> "suggestedReply",
                result |-> IF reply # "" THEN SetField(r, "suggestedReply", Str(reply))
                           ELSE r]
       ELSE IF MatchesLabel(trimmed, "lead quality score")
       THEN LET run == FirstDigitRun(trimmed)
            IN [currentField |-> "leadQualityScore",
                result |-> IF run # ""
                           THEN SetField(r, "leadQualityScore", parseInt(run))
                           ELSE r]
       ELSE IF MatchesLabel(trimmed, "business insight:")
       THEN Labelled("businessInsight", "business insight:")
       ELSE IF trimmed # "" /\ st.currentField # ""
       THEN IF st.currentField = "suggestedReply"
            THEN [st EXCEPT !.result =
                      SetField(r, "suggestedReply",
                               Str((IF Truthy(r.suggestedReply) THEN r.suggestedReply.s
                                    ELSE "") \o "\n" \o trimmed))]
            ELSE IF r[st.currentField].t = "string"
            THEN [st EXCEPT !.result =
                      SetField(r, st.currentField,
                               Str(r[st.currentField].s \o " " \o trimmed))]
            ELSE st
       ELSE st

RECURSIVE ScanLines(_, _)
ScanLines(st, lines) ==
    IF lines = <<>> THEN st ELSE ScanLines(ScanLine(st, Head(lines)), Tail(lines))

NonBlank(line) == Trim(line) # ""

\* lines 93-144: the line-scanning path
ScanText(txt) ==
    ScanLines([result |-> EmptyResult, currentField |-> ""],
              SelectSeq(SplitLines(txt), NonBlank)).result

\* lines 76-78: the outcome of JSON.parse on the match, ParseFail when there
\* is no match or JSON.parse throws
ParseMatch(jsonMatch) ==
    IF jsonMatch = Null THEN ParseFail ELSE JSONParse(jsonMatch.s)

\* TRUE when the JSON path of parseAnalysisResponse returns (lines 76-88)
TakesJsonPath(txt) == ParseMatch(JsonMatch(txt)).ok

\* lines 79-87 when JSON.parse returned, lines 93-144 otherwise
ResultFrom(parsed, txt) ==
    IF parsed.ok THEN FromParsed(parsed.v) ELSE ScanText(txt)

\* lines 74-145
parseAnalysisResponse(txt) == ResultFrom(ParseMatch(JsonMatch(txt)), txt)

----------------------------------------------------------------------------
(* JSON.stringify of an AnalysisResult, as NextResponse.json sends it      *)

\* the JSON escape of one character that needs one
EscapeChar(c) ==
    CASE c = "\"" -> "\\\""
      [] c = "\\" -> "\\\\"
      [] c = "\n" -> "\\n"
      [] c = "\t" -> "\\t"
      [] c = "\r" -> "\\r"
      [] c = "\f" -> "\\f"

RECURSIVE EscapeString(_)
EscapeString(str) ==
    LET k == FirstOf(str, 1, ControlChars \cup {"\"", "\\"})
    IN IF k = 0 THEN str
       ELSE SubSeq(str, 1, k - 1) \o EscapeChar(CharAt(str, k))
            \o EscapeString(SubSeq(str, k + 1, Len(str)))

Quote(str) == "\"" \o EscapeString(str) \o "\""

RECURSIVE JoinWith(_, _)
JoinWith(parts, sep) ==
    IF parts = <<>> THEN ""
    ELSE IF Len(parts) = 1 THEN parts[1]
    ELSE parts[1] \o sep \o JoinWith(Tail(parts), sep)

\* Number::toString of a finite number: the shortest digits that read back
\* as the same double, placed as ECMAScript places them, with n the position
\* of the decimal point after the first digit of the k digits
NumberToString(v) ==
    IF "n" \in DOMAIN v THEN ToString(v.n)
    ELSE LET d == v.digits
             k == Len(d)
             n == k + v.exp10
             e == n - 1
             sign == IF v.neg THEN "-" ELSE ""
         IN sign \o
            (IF k <= n /\ n <= 21 THEN d \o Repeat("0", n - k)
             ELSE IF 0 < n /\ n <= 21 THEN SubSeq(d, 1, n) \o "." \o SubSeq(d, n + 1, k)
             ELSE IF -6 < n /\ n <= 0 THEN "0." \o Repeat("0", -n) \o d
             ELSE SubSeq(d, 1, 1) \o (IF k > 1 THEN "." \o SubSeq(d, 2, k) ELSE "")
                  \o "e" \o (IF e < 0 THEN "-" \o ToString(-e) ELSE "+" \o ToString(e)))

\* JSON.stringify of a value that is not undefined: Infinity is written
\* null; the members of an object are written once per key, with the value
\* of the last member of that key, the keys that are array indices first in
\* ascending order and the others in the order they were first met
RECURSIVE StringifyValue(_)
StringifyValue(v) ==
    CASE v.t = "string" -> Quote(v.s)
      [] v.t = "number" -> IF "inf" \in DOMAIN v THEN "null" ELSE NumberToString(v)
      [] v.t = "boolean" -> IF v.b THEN "true" ELSE "false"
      [] v.t = "null" -> "null"
      [] v.t = "array" ->
             "[" \o JoinWith(SubSeq([i \in 1..Len(v.a) |-> StringifyValue(v.a[i])],
                                    1, Len(v.a)), ",") \o "]"
      [] v.t = "object" ->
             LET m == v.m
                 Key(i) == m[i][1]
                 First(i) == \A j \in 1..(i - 1) : Key(j) # Key(i)
                 Last(i) == \A j \in (i + 1)..Len(m) : Key(j) # Key(i)
                 Before(a, b) ==
                     \/ Len(a) < Len(b)
                     \/ /\ Len(a) = Len(b)
                        /\ \E c \in 1..Len(a) :
                              /\ SubSeq(a, 1, c - 1) = SubSeq(b, 1, c - 1)
                              /\ IndexOfChar(Digits, CharAt(a, c))
                                     < IndexOfChar(Digits, CharAt(b, c))
                 IsIndex(key) ==
                     /\ Len(key) >= 1
                     /\ \A c \in 1..Len(key) : CharAt(key, c) \in DigitSet
                     /\ Len(key) = 1 \/ CharAt(key, 1) # "0"
                     /\ ~Before("4294967294", key)
                 firsts == { i \in 1..Len(m) : First(i) }
                 Precedes(i, j) ==
                     IF IsIndex(Key(i))
                     THEN ~IsIndex(Key(j)) \/ Before(Key(i), Key(j))
                     ELSE ~IsIndex(Key(j)) /\ i < j
                 Nth(p) == CHOOSE i \in firsts :
                               Cardinality({ j \in firsts : Precedes(j, i) }) = p - 1
                 ValueOf(i) == m[CHOOSE j \in 1..Len(m) : Key(j) = Key(i) /\ Last(j)][2]
                 n == Cardinality(firsts)
             IN "{" \o JoinWith(SubSeq([p \in 1..n |->
                                           Quote(Key(Nth(p))) \o ":"
                                           \o StringifyValue(ValueOf(Nth(p)))],
                                       1, n), ",") \o "}"

\* JSON.stringify(result): the properties in the order the object holds
\* them, the undefined ones left out
JSONStringify(r) ==
    LET Present(f) == r[f] # Undefined
        fields == SelectSeq(r.keys, Present)
    IN "{" \o JoinWith(SubSeq([i \in 1..Len(fields) |->
                                  Quote(fields[i]) \o ":" \o StringifyValue(r[fields[i]])],
                              1, Len(fields)), ",") \o "}"

----------------------------------------------------------------------------
(* analyzeWithFallback *)

fraudKeywords == <<"urgent", "wire", "bank account", "password", "verify",
                   "suspended", "click here", "act now", "limited time">>
salesKeywords == <<"interested", "quote", "pricing", "demo", "meeting",
                   "budget", "looking for", "need">>
complaintKeywords == <<"disappointed", "unhappy", "refund", "complaint",
                       "terrible", "awful", "never again">>
urlPattern == <<"http://", "https://">>
urgencyPattern == <<"urgent", "immediately", "asap", "right now", "act now">>
infoPattern == <<"password", "account", "credit card", "ssn", "social security">>

Safe == "Safe"
Suspicious == "Suspicious"
HighRiskFraud == "High Risk Fraud"

ReasonSafe == "Message appears to be a normal business communication with no obvious risk indicators."
ReasonFraud == "Message contains multiple fraud indicators: urgency pressure, requests for sensitive information, and external links. Pattern consistent with phishing or social engineering attacks."
ReasonSuspicious == "Message contains potential risk indicators such as urgency language, requests for information, or suspicious links. Requires careful verification before responding."

ImpactDefault == "Minimal risk to business operations."
ImpactFraud == "High risk of financial loss, data breach, or security compromise. Could lead to unauthorized access to systems, financial accounts, or sensitive business information."
ImpactSuspicious == "Moderate risk of security incident or fraud. Could potentially lead to data exposure or financial loss if not properly verified."
ImpactComplaint == "Customer satisfaction and reputation risk. Requires prompt attention to prevent escalation and negative reviews."
ImpactSales == "Potential revenue opportunity. Timely response could lead to new business."

ActionFraud == "DO NOT RESPOND. Do not click any links. Report to IT security team immediately. Block sender and mark as spam."
ActionSuspicious == "Verify sender identity through separate communication channel before responding. Do not click links or provide information. Consult security team if uncertain."
ActionComplaint == "Respond within 24 hours. Acknowledge issue, apologize, and offer resolution. Escalate to customer service manager if needed."
ActionSales == "Follow up within 24-48 hours. Qualify lead by understanding needs, budget, and timeline. Schedule discovery call if appropriate."
ActionDefault == "Respond professionally within 1-2 business days. Address inquiry directly and provide requested information."

ReplySales == "Thank you for your interest in our services. I'd be happy to discuss how we can help meet your needs.\n\nCould you provide more details about:\n- Your specific requirements\n- Timeline for implementation\n- Budget considerations\n\nI'm available for a brief call this week to explore further. Please let me know your availability.\n\nBest regards"
ReplyComplaint == "Thank you for bringing this to our attention. I sincerely apologize for any inconvenience you've experienced.\n\nWe take these matters seriously and would like to resolve this as quickly as possible. Could you please provide additional details so we can investigate and address your concerns?\n\nI'm personally committed to ensuring we find a satisfactory resolution.\n\nBest regards"
ReplyGeneric == "Thank you for reaching out.\n\n[Address the specific inquiry or request here]\n\nPlease let me know if you need any additional information.\n\nBest regards"

InsightSalesPrefix == "This appears to be a sales opportunity. Lead quality: "
InsightSalesSuffix == "/10. Priority response recommended to maximize conversion potential."
InsightComplaint == "Customer retention risk. Immediate empathetic response required. This is an opportunity to demonstrate excellent customer service and prevent negative publicity."
InsightFraud == "Security threat detected. This message follows common fraud patterns. Employee training on security awareness is recommended to prevent future incidents."
InsightSuspicious == "Exercise caution. Verify authenticity before engagement. Implement sender verification protocols for similar messages."
InsightDefault == "Standard business communication. Respond professionally and maintain service level standards for response time."

BaseScore == 5
BudgetBonus == 2
MaxScore == 10
LongMessage == 200

\* lines 236-244: the six detection signals
DetectSignals(msg) ==
    LET lowerMessage == ToLowerCase(msg)
    IN [isFraud      |-> SomeIncluded(fraudKeywords, lowerMessage),
        isSales      |-> SomeIncluded(salesKeywords, lowerMessage),
        isComplaint  |-> SomeIncluded(complaintKeywords, lowerMessage),
        hasUrl       |-> RegexTest(urlPattern, msg),
        hasUrgency   |-> RegexTestI(urgencyPattern, msg),
        requestsInfo |-> RegexTestI(infoPattern, msg)]

\* ClassifyRisk without the hasUrl conjunct of the first rule
ClassifyRisk_NoUrl(sig) ==
    IF sig.isFraud \/ (sig.hasUrgency /\ sig.requestsInfo)
    THEN [riskLevel |-> HighRiskFraud, reason |-> ReasonFraud]
    ELSE IF sig.hasUrgency \/ sig.requestsInfo \/ (sig.hasUrl /\ sig.isFraud)
    THEN [riskLevel |-> Suspicious, reason |-> ReasonSuspicious]
    ELSE [riskLevel |-> Safe, reason |-> ReasonSafe]

\* ClassifyRisk with a fraud keyword alone deciding the Suspicious rule
ClassifyRisk_FraudAlone(sig) ==
    IF (sig.isFraud \/ (sig.hasUrgency /\ sig.requestsInfo)) /\ sig.hasUrl
    THEN [riskLevel |-> HighRiskFraud, reason |-> ReasonFraud]
    ELSE IF sig.hasUrgency \/ sig.requestsInfo \/ sig.isFraud
    THEN [riskLevel |-> Suspicious, reason |-> ReasonSuspicious]
    ELSE [riskLevel |-> Safe, reason |-> ReasonSafe]

\* lines 246-255
ClassifyRisk(sig) ==
    IF (sig.isFraud \/ (sig.hasUrgency /\ sig.requestsInfo)) /\ sig.hasUrl
    THEN [riskLevel |-> HighRiskFraud, reason |-> ReasonFraud]
    ELSE IF sig.hasUrgency \/ sig.requestsInfo \/ (sig.hasUrl /\ sig.isFraud)
    THEN [riskLevel |-> Suspicious, reason |-> ReasonSuspicious]
    ELSE [riskLevel |-> Safe, reason |-> ReasonSafe]

\* lines 257-266
SelectBusinessImpact(riskLevel, sig) ==
    IF riskLevel = HighRiskFraud THEN ImpactFraud
    ELSE IF riskLevel = Suspicious THEN ImpactSuspicious
    ELSE IF sig.isComplaint THEN ImpactComplaint
    ELSE IF sig.isSales THEN ImpactSales
    ELSE ImpactDefault

\* SelectRecommendedAction with the sales branch ahead of the complaint branch
SelectRecommendedAction_SalesFirst(riskLevel, sig) ==
    IF riskLevel = HighRiskFraud THEN ActionFraud
    ELSE IF riskLevel = Suspicious THEN ActionSuspicious
    ELSE IF sig.isSales THEN ActionSales
    ELSE IF sig.isComplaint THEN ActionComplaint
    ELSE ActionDefault

\* lines 268-279
SelectRecommendedAction(riskLevel, sig) ==
    IF riskLevel = HighRiskFraud THEN ActionFraud
    ELSE IF riskLevel = Suspicious THEN ActionSuspicious
    ELSE IF sig.isComplaint THEN ActionComplaint
    ELSE IF sig.isSales THEN ActionSales
    ELSE ActionDefault

\* SelectSuggestedReply with the complaint test moved under the Safe test
SelectSuggestedReply_SafeOnly(riskLevel, sig) ==
    IF riskLevel = Safe /\ sig.isSales THEN Str(ReplySales)
    ELSE IF riskLevel = Safe /\ sig.isComplaint THEN Str(ReplyComplaint)
    ELSE IF riskLevel = Safe THEN Str(ReplyGeneric)
    ELSE Undefined

\* SelectSuggestedReply without the final generic branch
SelectSuggestedReply_NoGeneric(riskLevel, sig) ==
    IF riskLevel = Safe /\ sig.isSales THEN Str(ReplySales)
    ELSE IF sig.isComplaint THEN Str(ReplyComplaint)
    ELSE Undefined

\* lines 281-288
SelectSuggestedReply(riskLevel, sig) ==
    IF riskLevel = Safe /\ sig.isSales THEN Str(ReplySales)
    ELSE IF sig.isComplaint THEN Str(ReplyComplaint)
    ELSE IF riskLevel = Safe THEN Str(ReplyGeneric)
    ELSE Undefined

Min(a, b) == IF a < b THEN a ELSE b

\* ComputeLeadQualityScore scoring every sales message, whatever its risk level
ComputeLeadQualityScore_AnyRisk(msg, riskLevel, sig) ==
    IF sig.isSales
    THEN LET lowerMessage == ToLowerCase(msg)
             s1 == BaseScore + (IF Includes(lowerMessage, "budget") THEN BudgetBonus ELSE 0)
             s2 == s1 + (IF Includes(lowerMessage, "timeline") \/ Includes(lowerMessage, "when")
                         THEN 1 ELSE 0)
             s3 == s2 + (IF Includes(lowerMessage, "demo") \/ Includes(lowerMessage, "meeting")
                         THEN 1 ELSE 0)
             s4 == s3 + (IF Len(msg) > LongMessage THEN 1 ELSE 0)
         IN Min(s4, MaxScore)
    ELSE 0

\* ComputeLeadQualityScore without the bonus for a demo or a meeting
ComputeLeadQualityScore_NoDemoBonus(msg, riskLevel, sig) ==
    IF sig.isSales /\ riskLevel = Safe
    THEN LET lowerMessage == ToLowerCase(msg)
             s1 == BaseScore + (IF Includes(lowerMessage, "budget") THEN BudgetBonus ELSE 0)
             s2 == s1 + (IF Includes(lowerMessage, "timeline") \/ Includes(lowerMessage, "when")
                         THEN 1 ELSE 0)
             s4 == s2 + (IF Len(msg) > LongMessage THEN 1 ELSE 0)
         IN Min(s4, MaxScore)
    ELSE 0

\* lines 290-298
ComputeLeadQualityScore(msg, riskLevel, sig) ==
    IF sig.isSales /\ riskLevel = Safe
    THEN LET lowerMessage == ToLowerCase(msg)
             s1 == BaseScore + (IF Includes(lowerMessage, "budget") THEN BudgetBonus ELSE 0)
             s2 == s1 + (IF Includes(lowerMessage, "timeline") \/ Includes(lowerMessage, "when")
                         THEN 1 ELSE 0)
             s3 == s2 + (IF Includes(lowerMessage, "demo") \/ Includes(lowerMessage, "meeting")
                         THEN 1 ELSE 0)
             s4 == s3 + (IF Len(msg) > LongMessage THEN 1 ELSE 0)
         IN Min(s4, MaxScore)
    ELSE 0

\* SelectBusinessInsight with the complaint branch ahead of the sales branch
SelectBusinessInsight_ComplaintFirst(riskLevel, sig, leadQualityScore) ==
    IF sig.isComplaint THEN InsightComplaint
    ELSE IF sig.isSales
    THEN InsightSalesPrefix \o ToString(leadQualityScore) \o InsightSalesSuffix
    ELSE IF riskLevel = HighRiskFraud THEN InsightFraud
    ELSE IF riskLevel = Suspicious THEN InsightSuspicious
    ELSE InsightDefault

\* lines 300-311; the template literal interpolates the number in decimal
SelectBusinessInsight(riskLevel, sig, leadQualityScore) ==
    IF sig.isSales
    THEN InsightSalesPrefix \o ToString(leadQualityScore) \o InsightSalesSuffix
    ELSE IF sig.isComplaint THEN InsightComplaint
    ELSE IF riskLevel = HighRiskFraud THEN InsightFraud
    ELSE IF riskLevel = Suspicious THEN InsightSuspicious
    ELSE InsightDefault

\* analyzeWithFallback trusting a message more when its sender is known
analyzeWithFallback_SenderAware(msg, sender, ctx) ==
    LET sig == DetectSignals(msg)
        risk == ClassifyRisk(sig)
        base == ComputeLeadQualityScore(msg, risk.riskLevel, sig)
        score == IF Truthy(sender) THEN Min(base + 1, MaxScore) ELSE base
    IN [riskLevel         |-> Str(risk.riskLevel),
        reason            |-> Str(risk.reason),
        businessImpact    |-> Str(SelectBusinessImpact(risk.riskLevel, sig)),
        recommendedAction |-> Str(SelectRecommendedAction(risk.riskLevel, sig)),
        suggestedReply    |-> SelectSuggestedReply(risk.riskLevel, sig),
        leadQualityScore  |-> Num(score),
        businessInsight   |-> Str(SelectBusinessInsight(risk.riskLevel, sig, score)),
        keys              |-> FieldOrder]

\* lines 231-322; senderInfo and context are accepted and never read
analyzeWithFallback(msg, sender, ctx) ==
    LET sig == DetectSignals(msg)
        risk == ClassifyRisk(sig)
        score == ComputeLeadQualityScore(msg, risk.riskLevel, sig)
    IN [riskLevel         |-> Str(risk.riskLevel),
        reason            |-> Str(risk.reason),
        businessImpact    |-> Str(SelectBusinessImpact(risk.riskLevel, sig)),
        recommendedAction |-> Str(SelectRecommendedAction(risk.riskLevel, sig)),
        suggestedReply    |-> SelectSuggestedReply(risk.riskLevel, sig),
        leadQualityScore  |-> Num(score),
        businessInsight   |-> Str(SelectBusinessInsight(risk.riskLevel, sig, score)),
        keys              |-> FieldOrder]

----------------------------------------------------------------------------
(* Inputs of the fallback analyzer: messages built from at most            *)
(* MaxFragments phrases                                                    *)

MaxFragments == 2

\* padding that alone makes a message longer than LongMessage characters
Padding == Repeat(".", LongMessage + 1)

Fragments ==
    { "URGENT: verify your password. ",
      "https://x.com ",
      "HTTPS://X.COM ",
      "reply asap: http://pay.example ",
      "please wire the funds ",
      "do it right now ",
      "send your ssn ",
      "Interested in pricing, our budget is set, need a demo next week",
      " when can we demo within budget? ",
      "need a quote ",
      "I want a refund, terrible service ",
      "I need my refund immediately ",
      "hello there ",
      Padding }

RECURSIVE Concat(_)
Concat(seq) == IF seq = <<>> THEN "" ELSE Head(seq) \o Concat(Tail(seq))

FragmentSeqs == UNION { [1..n -> Fragments] : n \in 0..MaxFragments }

Messages == { Concat(fs) : fs \in FragmentSeqs }

MetaInputs == { Undefined, Str("billing@acme.example") }

FallbackInit ==
    /\ pc = "start"
    /\ request = NoRequest
    /\ env = [anthropic |-> FALSE, openai |-> FALSE]
    /\ message \in Messages
    /\ senderInfo \in MetaInputs
    /\ context = Undefined
    /\ text = ""
    /\ signals = NoSignals
    /\ result = NoResult
    /\ original = NoResult
    /\ calls = <<>>
    /\ response = NoResponse

\* one call of analyzeWithFallback(message, senderInfo, context)
RunFallback ==
    /\ pc = "start"
    /\ pc' = "done"
    /\ signals' = DetectSignals(message)
    /\ result' = analyzeWithFallback(message, senderInfo, context)
    /\ calls' = Append(calls, "fallback")
    /\ UNCHANGED <<request, env, message, senderInfo, context, text, original, response>>

FallbackNext == RunFallback

SpecFallback == FallbackInit /\ [][FallbackNext]_vars

----------------------------------------------------------------------------
(* Properties of the fallback analyzer, stated over the finished call      *)

FallbackDone == pc = "done" /\ result # NoResult /\ signals # NoSignals

RiskOf(r) == r.riskLevel.s

\* C1: for every combination of isFraud, hasUrgency, requestsInfo and hasUrl
\* the risk level is High Risk Fraud exactly when (isFraud or (hasUrgency and
\* requestsInfo)) and hasUrl; otherwise Suspicious exactly when hasUrgency or
\* requestsInfo or (hasUrl and isFraud); otherwise Safe.  No message without
\* a URL is High Risk Fraud, and a message with no signal is Safe.
C1_RiskClassification ==
    FallbackDone =>
        LET high == (signals.isFraud \/ (signals.hasUrgency /\ signals.requestsInfo))
                    /\ signals.hasUrl
            susp == signals.hasUrgency \/ signals.requestsInfo
                    \/ (signals.hasUrl /\ signals.isFraud)
        IN /\ (result.riskLevel = Str("High Risk Fraud")) <=> high
           /\ (result.riskLevel = Str("Suspicious")) <=> (~high /\ susp)
           /\ (result.riskLevel = Str("Safe")) <=> (~high /\ ~susp)
           /\ ~signals.hasUrl => result.riskLevel # Str("High Risk Fraud")
           /\ (~signals.isFraud /\ ~signals.hasUrgency /\ ~signals.requestsInfo
               /\ ~signals.hasUrl) => result.riskLevel = Str("Safe")
           /\ message = "" => result.riskLevel = Str("Safe")

\* a message with a URL, urgency and a request for data but no fraud keyword
\* was classified High Risk Fraud
C1_Witness ==
    /\ FallbackDone
    /\ ~signals.isFraud /\ signals.hasUrgency /\ signals.requestsInfo /\ signals.hasUrl
    /\ result.riskLevel = Str("High Risk Fraud")

\* C6: leadQualityScore is 0 unless isSales holds and the risk level is Safe;
\* then it is min(10, 5 + 2*[contains budget] + [contains timeline or when]
\* + [contains demo or meeting] + [length > 200]).  So it is 0 or in 5..10.
C6_LeadQualityScore ==
    FallbackDone =>
        LET lower == ToLowerCase(message)
            sum == 5 + (IF Includes(lower, "budget") THEN 2 ELSE 0)
                     + (IF Includes(lower, "timeline") \/ Includes(lower, "when") THEN 1 ELSE 0)
                     + (IF Includes(lower, "demo") \/ Includes(lower, "meeting") THEN 1 ELSE 0)
                     + (IF Len(message) > 200 THEN 1 ELSE 0)
            expected == IF signals.isSales /\ RiskOf(result) = "Safe"
                        THEN (IF sum > 10 THEN 10 ELSE sum) ELSE 0
        IN /\ result.leadQualityScore = Num(expected)
           /\ result.leadQualityScore.n \in {0} \cup 5..10

\* a safe sales message longer than 200 characters, with every bonus, was
\* scored 10
C6_Witness ==
    /\ FallbackDone
    /\ signals.isSales
    /\ RiskOf(result) = "Safe"
    /\ Len(message) > 200
    /\ result.leadQualityScore = Num(10)

\* C7 as stated: whenever isComplaint holds the suggested reply is the
\* apology template, whatever the risk level and the other signals.
C7_ComplaintAlwaysApology ==
    (FallbackDone /\ signals.isComplaint) => result.suggestedReply = Str(ReplyComplaint)

\* C7 amended: whenever isComplaint holds, the suggested reply is the apology
\* template unless the message is also a sales message with risk level Safe,
\* in which case it is the sales template.
C7_ComplaintReply ==
    (FallbackDone /\ signals.isComplaint) =>
        IF signals.isSales /\ RiskOf(result) = "Safe"
        THEN result.suggestedReply = Str(ReplySales)
        ELSE result.suggestedReply = Str(ReplyComplaint)

\* a complaint that is also a sales message, with a risk, got the apology
C7_Witness ==
    /\ FallbackDone
    /\ signals.isComplaint /\ signals.isSales
    /\ RiskOf(result) # "Safe"
    /\ result.suggestedReply = Str(ReplyComplaint)

\* C8: suggestedReply is unset exactly when the risk level is not Safe and
\* isComplaint is false; every Safe result carries a reply: the sales template
\* when isSales holds, the generic one when neither isSales nor isComplaint.
C8_ReplyPresence ==
    FallbackDone =>
        /\ (result.suggestedReply = Undefined)
               <=> (RiskOf(result) # "Safe" /\ ~signals.isComplaint)
        /\ RiskOf(result) = "Safe" =>
               /\ result.suggestedReply.t = "string"
               /\ signals.isSales => result.suggestedReply = Str(ReplySales)
               /\ (~signals.isSales /\ ~signals.isComplaint)
                      => result.suggestedReply = Str(ReplyGeneric)

\* a safe message that is neither sales nor complaint got the generic reply
C8_Witness ==
    /\ FallbackDone
    /\ RiskOf(result) = "Safe" /\ ~signals.isSales /\ ~signals.isComplaint
    /\ result.suggestedReply = Str(ReplyGeneric)

\* the branch of the chain risk > complaint > sales > default
ImpactActionBranch(riskLevel, sig) ==
    IF riskLevel = "High Risk Fraud" THEN 1
    ELSE IF riskLevel = "Suspicious" THEN 2
    ELSE IF sig.isComplaint THEN 3
    ELSE IF sig.isSales THEN 4
    ELSE 5

\* C9: businessImpact and recommendedAction come from the same branch of the
\* first-match chain High Risk Fraud, Suspicious, isComplaint, isSales,
\* default; a non-Safe risk level overrides the complaint and sales texts.
C9_ImpactActionChain ==
    FallbackDone =>
        LET b == ImpactActionBranch(RiskOf(result), signals)
            impacts == <<ImpactFraud, ImpactSuspicious, ImpactComplaint, ImpactSales,
                         ImpactDefault>>
            actions == <<ActionFraud, ActionSuspicious, ActionComplaint, ActionSales,
                         ActionDefault>>
        IN /\ result.businessImpact = Str(impacts[b])
           /\ result.recommendedAction = Str(actions[b])
           /\ RiskOf(result) # "Safe" =>
                  /\ result.businessImpact \notin {Str(ImpactComplaint), Str(ImpactSales)}
                  /\ result.recommendedAction \notin {Str(ActionComplaint), Str(ActionSales)}

\* a safe message that is both a complaint and a sales message took the
\* complaint branch in both fields
C9_Witness ==
    /\ FallbackDone
    /\ RiskOf(result) = "Safe" /\ signals.isComplaint /\ signals.isSales
    /\ result.businessImpact = Str(ImpactComplaint)
    /\ result.recommendedAction = Str(ActionComplaint)

\* C10: businessInsight follows the first-match chain isSales, isComplaint,
\* High Risk Fraud, Suspicious, default; on the sales branch the score in the
\* text is the leadQualityScore of the same result, so 0 for a sales message
\* whose risk level is not Safe.
C10_InsightChain ==
    FallbackDone =>
        LET salesText == "This appears to be a sales opportunity. Lead quality: "
                         \o ToString(result.leadQualityScore.n)
                         \o "/10. Priority response recommended to maximize conversion potential."
            expected == IF signals.isSales THEN salesText
                        ELSE IF signals.isComplaint THEN InsightComplaint
                        ELSE IF RiskOf(result) = "High Risk Fraud" THEN InsightFraud
                        ELSE IF RiskOf(result) = "Suspicious" THEN InsightSuspicious
                        ELSE InsightDefault
        IN /\ result.businessInsight = Str(expected)
           /\ (signals.isSales /\ RiskOf(result) # "Safe") =>
                  result.businessInsight =
                      Str("This appears to be a sales opportunity. Lead quality: 0/10. Priority response recommended to maximize conversion potential.")

\* a sales message that is also a complaint and carries a risk got the sales
\* insight with score 0
C10_Witness ==
    /\ FallbackDone
    /\ signals.isSales /\ signals.isComplaint /\ RiskOf(result) # "Safe"
    /\ result.leadQualityScore = Num(0)
    /\ result.businessInsight =
           Str(InsightSalesPrefix \o "0" \o InsightSalesSuffix)

\* the example message of the scoring rule, alone and padded past LongMessage
\* characters with text that adds no fraud, urgency or timeline wording
ExampleMessage == "Interested in pricing, our budget is set, need a demo next week"

ExampleMessages ==
    { ExampleMessage, ExampleMessage \o "hello there ",
      ExampleMessage \o Padding, Padding \o ExampleMessage }

\* C11 as stated: for the example message, padded past 200 characters or
\* not, the fallback analyzer returns riskLevel Safe and a leadQualityScore
\* of 9 or 10.
C11_ScoreNineOrTen ==
    (FallbackDone /\ message \in ExampleMessages) =>
        /\ RiskOf(result) = "Safe"
        /\ result.leadQualityScore \in {Num(9), Num(10)}

\* C11: for the example message the fallback analyzer returns riskLevel
\* Safe and a leadQualityScore of 8 (5 + 2 for budget + 1 for demo) when the
\* message is at most 200 characters long, and 9 when it is padded past 200
\* characters; the timeline bonus is never earned and 10 is never reached.
C11_ExampleScore ==
    (FallbackDone /\ message \in ExampleMessages) =>
        /\ RiskOf(result) = "Safe"
        /\ signals.isSales
        /\ result.leadQualityScore = (IF Len(message) > 200 THEN Num(9) ELSE Num(8))

\* the padded example message was analysed and scored 9
C11_Witness ==
    /\ FallbackDone
    /\ message = ExampleMessage \o Padding
    /\ Len(message) > 200
    /\ result.leadQualityScore = Num(9)

\* C14: the third disjunct of the Suspicious rule never decides the outcome:
\* every message with isFraud and hasUrl is High Risk Fraud, a result is
\* Suspicious only if hasUrgency or requestsInfo holds (exactly when one of
\* them holds and the High Risk Fraud rule does not apply), and a message
\* whose only risk signal is a fraud keyword is Safe.
C14_DeadDisjunct ==
    FallbackDone =>
        /\ (signals.isFraud /\ signals.hasUrl) => RiskOf(result) = "High Risk Fraud"
        /\ RiskOf(result) = "Suspicious" => (signals.hasUrgency \/ signals.requestsInfo)
        /\ RiskOf(result) = "Suspicious" <=>
               /\ signals.hasUrgency \/ signals.requestsInfo
               /\ RiskOf(result) # "High Risk Fraud"
        /\ (/\ signals.isFraud
            /\ ~signals.hasUrl /\ ~signals.hasUrgency /\ ~signals.requestsInfo)
           => /\ RiskOf(result) = "Safe"
              /\ result.reason = Str(ReasonSafe)

\* a message whose only risk signal is a fraud keyword, with an upper-case
\* link that the URL pattern does not match, was classified Safe
C14_Witness ==
    /\ FallbackDone
    /\ message = "please wire the funds HTTPS://X.COM "
    /\ signals.isFraud
    /\ ~signals.hasUrl /\ ~signals.hasUrgency /\ ~signals.requestsInfo
    /\ result.riskLevel = Str("Safe")

----------------------------------------------------------------------------
(* Repeated calls of the fallback analyzer: a first call on a message, any *)
(* number of calls on other messages up to MaxOtherCalls, then a second    *)
(* call on the first message with freshly chosen senderInfo and context.   *)
(* The function keeps no state between calls: its keyword lists and        *)
(* regular expressions are created inside each call (lines 232-244) and    *)
(* the expressions carry no g or y flag, so test() has no lastIndex.       *)

MaxOtherCalls == 1

RepeatMessages ==
    { "", "hello there ", ExampleMessage, ExampleMessage \o Padding,
      "URGENT: verify your password. ", "reply asap: http://pay.example ",
      "I need my refund immediately " }

ContextInputs == { Undefined, Str("follow-up on invoice 1182") }

CallRecord(msg, sender, ctx) ==
    [name |-> "fallback", message |-> msg, senderInfo |-> sender, context |-> ctx]

RepeatInit ==
    /\ pc = "start"
    /\ request = NoRequest
    /\ env = [anthropic |-> FALSE, openai |-> FALSE]
    /\ message \in RepeatMessages
    /\ senderInfo \in MetaInputs
    /\ context \in ContextInputs
    /\ text = ""
    /\ signals = NoSignals
    /\ result = NoResult
    /\ original = NoResult
    /\ calls = <<>>
    /\ response = NoResponse

\* the first call, analyzeWithFallback(message, senderInfo, context); its
\* result is kept in original
FirstCall ==
    /\ pc = "start"
    /\ pc' = "called"
    /\ signals' = DetectSignals(message)
    /\ result' = analyzeWithFallback(message, senderInfo, context)
    /\ original' = result'
    /\ calls' = Append(calls, CallRecord(message, senderInfo, context))
    /\ UNCHANGED <<request, env, message, senderInfo, context, text, response>>

\* a call on another message between the two calls
OtherCall ==
    /\ pc = "called"
    /\ Len(calls) <= MaxOtherCalls
    /\ \E m \in {"URGENT: verify your password. ", "need a quote "},
          s \in MetaInputs, c \in ContextInputs :
          /\ m # message
          /\ result' = analyzeWithFallback(m, s, c)
          /\ signals' = DetectSignals(m)
          /\ calls' = Append(calls, CallRecord(m, s, c))
    /\ UNCHANGED <<pc, request, env, message, senderInfo, context, text, original,
                   response>>

\* the second call on the first message, with any senderInfo and context
SecondCall ==
    /\ pc = "called"
    /\ pc' = "done"
    /\ \E s \in MetaInputs, c \in ContextInputs :
          /\ senderInfo' = s
          /\ context' = c
          /\ result' = analyzeWithFallback(message, s, c)
          /\ calls' = Append(calls, CallRecord(message, s, c))
    /\ signals' = DetectSignals(message)
    /\ UNCHANGED <<request, env, message, text, original, response>>

RepeatNext ==
    \/ FirstCall
    \/ OtherCall
    \/ SecondCall

SpecRepeat == RepeatInit /\ [][RepeatNext]_vars

RepeatDone == pc = "done" /\ result # NoResult /\ original # NoResult

\* C12: the fallback analyzer's result is a function of the message alone:
\* the second call on a message returns a result equal in every field to the
\* first call's, whatever senderInfo and context either call was given and
\* whatever calls were made in between.
C12_FunctionOfMessage ==
    RepeatDone =>
        /\ calls[1].message = message /\ calls[Len(calls)].message = message
        /\ \A f \in DOMAIN original : result[f] = original[f]
        /\ DOMAIN result = DOMAIN original

\* a sales message was analysed without sender or context, another message
\* was analysed, and the sales message was analysed again with both
C12_Witness ==
    /\ RepeatDone
    /\ Len(calls) = 3
    /\ calls[1].senderInfo = Undefined /\ calls[1].context = Undefined
    /\ calls[2].message # message
    /\ calls[3].senderInfo # Undefined /\ calls[3].context # Undefined
    /\ message = ExampleMessage
    /\ result.leadQualityScore = Num(8)
    /\ result = original

----------------------------------------------------------------------------
(* Inputs of parseAnalysisResponse: texts of at most MaxLines lines        *)

MaxLines == 2

TextLines ==
    { "{\"riskLevel\":\"Safe\",\"reason\":\"ok\",\"leadQualityScore\":7}",
      "{\"riskLevel\":\"Critical\",\"leadQualityScore\":99}",
      "{\"riskLevel\":5,\"reason\":\"\",\"leadQualityScore\":\"high\"}",
      "Here you go: {} ",
      "{not json}",
      "Risk Level: Suspicious",
      "reason: looks odd",
      "  and more detail  ",
      "Business Impact:",
      "Recommended Action: call back",
      "Suggested Reply (formal): Hello",
      "Suggested Reply",
      "suggested reply:",
      "Lead Quality Score: 42/10",
      "lead quality score 9007199254740993",
      "{\"leadQualityScore\":1e-400,\"reason\":0.10000000000000000001}",
      "Business Insight: none",
      "" }

LineSeqs == UNION { [1..n -> TextLines] : n \in 1..MaxLines }

Texts == { JoinWith(ls, "\n") : ls \in LineSeqs }

ParseInit ==
    /\ pc = "start"
    /\ request = NoRequest
    /\ env = [anthropic |-> FALSE, openai |-> FALSE]
    /\ message = ""
    /\ senderInfo = Undefined
    /\ context = Undefined
    /\ text \in Texts
    /\ signals = NoSignals
    /\ result = NoResult
    /\ original = NoResult
    /\ calls = <<>>
    /\ response = NoResponse

\* one call of parseAnalysisResponse(text)
RunParse ==
    /\ pc = "start"
    /\ pc' = "done"
    /\ result' = parseAnalysisResponse(text)
    /\ UNCHANGED <<request, env, message, senderInfo, context, text, signals,
                   original, calls, response>>

ParseNext == RunParse

SpecParse == ParseInit /\ [][ParseNext]_vars

ParseDone == pc = "done" /\ result # NoResult

RiskLevels == {Str("Safe"), Str("Suspicious"), Str("High Risk Fraud"), Str("Unknown")}

\* C3 as stated: for every text, on both paths, riskLevel, reason,
\* businessImpact, recommendedAction and businessInsight are strings,
\* riskLevel is Safe, Suspicious, High Risk Fraud or Unknown, and
\* leadQualityScore is an integer in 0..10 (0 when the text gives none).
C3_WellTypedResult ==
    ParseDone =>
        /\ \A f \in {"riskLevel", "reason", "businessImpact", "recommendedAction",
                     "businessInsight"} : result[f].t = "string"
        /\ result.riskLevel \in RiskLevels
        /\ result.leadQualityScore \in {Num(n) : n \in 0..10}

\* TRUE when no line of the text starts with a label of the line scan
NoLabelLine(txt) ==
    \A i \in 1..Len(SplitLines(txt)) :
        LET trimmed == Trim(SplitLines(txt)[i])
        IN \A label \in {"risk level:", "reason:", "business impact:",
                         "recommended action:", "suggested reply",
                         "lead quality score", "business insight:"} :
               ~MatchesLabel(trimmed, label)

DocumentedDefaults ==
    [riskLevel         |-> Str("Unknown"),
     reason            |-> Str("No reason provided"),
     businessImpact    |-> Str("No impact assessment provided"),
     recommendedAction |-> Str("No action recommended"),
     suggestedReply    |-> Undefined,
     leadQualityScore  |-> Num(0),
     businessInsight   |-> Str("No insight provided")]

\* TRUE when two results agree on each of the seven fields
SameFields(a, b) == \A i \in 1..Len(FieldOrder) : a[FieldOrder[i]] = b[FieldOrder[i]]

\* C4 as stated: the result is fully populated on either path: no field but
\* suggestedReply is undefined, reason is never empty, and a text that
\* supplies no field at all (no JSON object, no label line) yields the
\* documented default of every field.
C4_FullyPopulated ==
    ParseDone =>
        /\ \A f \in {"riskLevel", "reason", "businessImpact", "recommendedAction",
                     "leadQualityScore", "businessInsight"} : result[f] # Undefined
        /\ result.reason # Str("")
        /\ (JsonMatch(text) = Null /\ NoLabelLine(text)) =>
               SameFields(result, DocumentedDefaults)

----------------------------------------------------------------------------
(* The line scan as the specification describes it, line by line           *)

\* the labelled string fields and their labels
LabelOf ==
    [riskLevel         |-> "risk level:",
     reason            |-> "reason:",
     businessImpact    |-> "business impact:",
     recommendedAction |-> "recommended action:",
     businessInsight   |-> "business insight:"]

\* the rest of a Suggested Reply line: what follows the label and its colon
\* variant, or what follows the label when the line has no colon
RestOfReplyLine(trimmed) ==
    LET colon == FirstOf(trimmed, Len("suggested reply") + 1, {":"})
        from == IF colon = 0 THEN Len("suggested reply") + 1 ELSE colon + 1
    IN Trim(SubSeq(trimmed, from, Len(trimmed)))

\* an absent suggestedReply and an empty one are taken as the same value
ReplyText(r) == IF r.suggestedReply = Undefined THEN "" ELSE r.suggestedReply.s

SameResult(a, b) ==
    /\ \A f \in DOMAIN LabelOf : a[f] = b[f]
    /\ a.leadQualityScore = b.leadQualityScore
    /\ ReplyText(a) = ReplyText(b)

\* TRUE when the step from scan state st to scan state nx on a non-blank
\* line is the one described: a label line moves the cursor to its field and
\* sets the field to the rest of the line (the score to the number on the
\* line), any other line is appended to the field under the cursor, and a
\* line met before any label changes nothing
DescribedStep(st, line, nx) ==
    LET trimmed == Trim(line)
        r == st.result
        stringLabels == { f \in DOMAIN LabelOf : MatchesLabel(trimmed, LabelOf[f]) }
    IN IF stringLabels # {}
       THEN \E f \in stringLabels :
                /\ nx.currentField = f
                /\ SameResult(nx.result,
                              [r EXCEPT ![f] = Str(StripLabel(trimmed, LabelOf[f]))])
       ELSE IF MatchesLabel(trimmed, "suggested reply")
       THEN /\ nx.currentField = "suggestedReply"
            /\ SameResult(nx.result,
                          [r EXCEPT !.suggestedReply = Str(RestOfReplyLine(trimmed))])
       ELSE IF MatchesLabel(trimmed, "lead quality score")
       THEN /\ nx.currentField = "leadQualityScore"
            /\ SameResult(nx.result,
                          IF FirstDigitRun(trimmed) = "" THEN r
                          ELSE [r EXCEPT !.leadQualityScore =
                                    parseInt(FirstDigitRun(trimmed))])
       ELSE IF st.currentField = ""
       THEN nx = st
       ELSE /\ nx.currentField = st.currentField
            /\ SameResult(nx.result,
                          IF st.currentField = "suggestedReply"
                          THEN [r EXCEPT !.suggestedReply =
                                    Str(ReplyText(r) \o "\n" \o trimmed)]
                          ELSE IF st.currentField \in DOMAIN LabelOf
                          THEN [r EXCEPT ![st.currentField] =
                                    Str(r[st.currentField].s \o " " \o trimmed)]
                          ELSE r)

\* the scan state of the code after the first n non-blank lines of a text
ScanStateAfter(txt, n) ==
    ScanLines([result |-> EmptyResult, currentField |-> ""],
              SubSeq(SelectSeq(SplitLines(txt), NonBlank), 1, n))

\* C13 as stated: on the line-scanning path, for every sequence of non-blank
\* lines processed in order, a line that starts with a label sets the cursor
\* to that label's field and sets the field to the rest of the line; every
\* line that matches no label is appended to the field of the most recent
\* label line (with a newline for suggestedReply, with a single space for
\* every other string field); and the lines before the first label line
\* leave the result unchanged.
C13_LineScanSteps ==
    (ParseDone /\ ~TakesJsonPath(text)) =>
        LET lines == SelectSeq(SplitLines(text), NonBlank)
        IN /\ result = ScanStateAfter(text, Len(lines)).result
           /\ \A n \in 1..Len(lines) :
                  DescribedStep(ScanStateAfter(text, n - 1), lines[n],
                                ScanStateAfter(text, n))

----------------------------------------------------------------------------
(* Round trip: JSON.stringify of a valid AnalysisResult, then              *)
(* parseAnalysisResponse                                                   *)

TrickyText == "Say \"hi\" {now}: C:\\tmp\n\t- done"

\* the property order of a result whose reply and score were set after the
\* object was made (lines 95-101, then 123 and 127)
ScanOrder == <<"riskLevel", "reason", "businessImpact", "recommendedAction",
               "businessInsight", "suggestedReply", "leadQualityScore">>

\* valid results, in both property orders
ValidResults ==
    { [riskLevel         |-> level,
       reason            |-> Str(reason),
       businessImpact    |-> Str(impact),
       recommendedAction |-> Str(action),
       suggestedReply    |-> reply,
       leadQualityScore  |-> Num(score),
       businessInsight   |-> Str(insight),
       keys              |-> keys] :
         level \in RiskLevels,
         reason \in {"ok", TrickyText},
         impact \in {"", ImpactSales},
         action \in {"", TrickyText},
         reply \in {Undefined, Str(""), Str(ReplyGeneric)},
         score \in 0..10,
         insight \in {"", "Risk Level: Safe"},
         keys \in {FieldOrder, ScanOrder} }

RoundTripInit ==
    /\ pc = "start"
    /\ request = NoRequest
    /\ env = [anthropic |-> FALSE, openai |-> FALSE]
    /\ message = ""
    /\ senderInfo = Undefined
    /\ context = Undefined
    /\ text = ""
    /\ signals = NoSignals
    /\ result = NoResult
    /\ original \in ValidResults
    /\ calls = <<>>
    /\ response = NoResponse

\* the result is serialized the way the handler's response carries it
Serialize ==
    /\ pc = "start"
    /\ pc' = "serialized"
    /\ text' = JSONStringify(original)
    /\ UNCHANGED <<request, env, message, senderInfo, context, signals, result,
                   original, calls, response>>

\* the serialized text is parsed back
ParseBack ==
    /\ pc = "serialized"
    /\ pc' = "done"
    /\ result' = parseAnalysisResponse(text)
    /\ UNCHANGED <<request, env, message, senderInfo, context, text, signals,
                   original, calls, response>>

RoundTripNext == Serialize \/ ParseBack

SpecRoundTrip == RoundTripInit /\ [][RoundTripNext]_vars

RoundTripDone == pc = "done" /\ result # NoResult /\ original # NoResult

\* C5 as stated: for every valid AnalysisResult, empty businessImpact,
\* recommendedAction, businessInsight and suggestedReply included, the round
\* trip returns a result equal to the original in every field.
C5_RoundTripIdentity ==
    RoundTripDone => SameFields(result, original)

\* C5 amended: the round trip returns every field of a valid AnalysisResult
\* unchanged, except that an empty businessImpact, recommendedAction or
\* businessInsight comes back as the field's default text and an empty
\* suggestedReply comes back absent.
C5_RoundTrip ==
    RoundTripDone =>
        /\ TakesJsonPath(text)
        /\ result.riskLevel = original.riskLevel
        /\ result.reason = original.reason
        /\ result.leadQualityScore = original.leadQualityScore
        /\ result.businessImpact =
               IF original.businessImpact = Str("")
               THEN Str("No impact assessment provided") ELSE original.businessImpact
        /\ result.recommendedAction =
               IF original.recommendedAction = Str("")
               THEN Str("No action recommended") ELSE original.recommendedAction
        /\ result.businessInsight =
               IF original.businessInsight = Str("")
               THEN Str("No insight provided") ELSE original.businessInsight
        /\ result.suggestedReply =
               IF original.suggestedReply = Str("") THEN Undefined
               ELSE original.suggestedReply
        /\ (/\ original.businessImpact # Str("")
            /\ original.recommendedAction # Str("")
            /\ original.businessInsight # Str("")
            /\ original.suggestedReply # Str("")) => SameFields(result, original)

\* a result whose texts hold quotes, braces, backslashes and line breaks, with
\* a multi-line reply and a non-zero score, came back equal to the original
C5_Witness ==
    /\ RoundTripDone
    /\ original.reason = Str(TrickyText)
    /\ original.recommendedAction = Str(TrickyText)
    /\ original.businessImpact # Str("")
    /\ original.businessInsight # Str("")
    /\ original.suggestedReply = Str(ReplyGeneric)
    /\ original.leadQualityScore = Num(10)
    /\ original.keys = ScanOrder
    /\ SameFields(result, original)

----------------------------------------------------------------------------
(* The POST handler (lines 324-368) and the provider analyzers (lines      *)
(* 147-229).  Each action is one turn of the event loop: the code of the   *)
(* request from one await to the next.  calls holds the analyzers called,  *)
(* each with the state of its promise.  Requests share no state (each has  *)
(* its own locals and process.env is only read), so one request is         *)
(* modelled; the turns of other requests fall between its actions.         *)

MalformedBody == [t |-> "malformed"]

RequestMessages ==
    {Undefined, Num(5), Str("")} \cup {Str(m) : m \in Fragments}

Requests ==
    {MalformedBody}
    \cup { [t |-> "body", message |-> m, senderInfo |-> si, context |-> Undefined] :
               m \in RequestMessages, si \in MetaInputs }

\* the text a provider's reply carries when the call succeeds
ProviderTexts ==
    { "{\"riskLevel\":\"Safe\",\"reason\":\"ok\",\"leadQualityScore\":7}",
      "Risk Level: Suspicious\nReason: looks odd" }

ErrorResponse(status, msg) == [status |-> status, body |-> [error |-> Str(msg)]]
OkResponse(r) == [status |-> 200, body |-> r]

HandlerInit ==
    /\ pc = "received"
    /\ request \in Requests
    /\ env \in [anthropic : BOOLEAN, openai : BOOLEAN]
    /\ message = ""
    /\ senderInfo = Undefined
    /\ context = Undefined
    /\ text = ""
    /\ signals = NoSignals
    /\ result = NoResult
    /\ original = NoResult
    /\ calls = <<>>
    /\ response = NoResponse

ValidRequest ==
    /\ request.t = "body"
    /\ request.message.t = "string"
    /\ Truthy(request.message)

\* lines 326-334 and 361-366: request.json() rejects, or the message is
\* missing, empty or no string
RejectRequest ==
    /\ pc = "received"
    /\ ~ValidRequest
    /\ pc' = "done"
    /\ response' = IF request.t = "malformed"
                   THEN ErrorResponse(500, "Failed to analyze message")
                   ELSE ErrorResponse(400, "Message is required")
    /\ UNCHANGED <<request, env, message, senderInfo, context, text, signals,
                   result, original, calls>>

\* lines 326-358 after request.json() resolved: the body is valid and the
\* first analyzer is called.  A provider analyzer runs to its await of fetch
\* (line 158 or 198); analyzeWithFallback has no await and runs to its
\* return.  POST then waits for the analyzer's promise (line 340, 351 or 357).
AcceptRequest ==
    /\ pc = "received"
    /\ ValidRequest
    /\ message' = request.message.s
    /\ senderInfo' = request.senderInfo
    /\ context' = request.context
    /\ IF env.anthropic
       THEN /\ pc' = "claudeFetch"
            /\ calls' = Append(calls, [name |-> "claude", state |-> "pending"])
            /\ UNCHANGED <<signals, result>>
       ELSE IF env.openai
       THEN /\ pc' = "openaiFetch"
            /\ calls' = Append(calls, [name |-> "openai", state |-> "pending"])
            /\ UNCHANGED <<signals, result>>
       ELSE /\ pc' = "fallbackReturned"
            /\ signals' = DetectSignals(request.message.s)
            /\ result' = analyzeWithFallback(request.message.s, request.senderInfo,
                                             request.context)
            /\ calls' = Append(calls, [name |-> "fallback", state |-> "resolved"])
    /\ UNCHANGED <<request, env, text, original, response>>

\* lines 158-181: fetch resolved with an ok response; analyzeWithClaude goes
\* on to its await of response.json()
ClaudeFetched ==
    /\ pc = "claudeFetch"
    /\ pc' = "claudeBody"
    /\ UNCHANGED <<request, env, message, senderInfo, context, text, signals,
                   result, original, calls, response>>

\* lines 181-184: response.json() resolved; the text is taken from the reply
\* and parsed, and analyzeWithClaude returns the result
ClaudeReplies ==
    /\ pc = "claudeBody"
    /\ \E t \in ProviderTexts :
           /\ text' = t
           /\ result' = parseAnalysisResponse(t)
    /\ calls' = [calls EXCEPT ![Len(calls)].state = "resolved"]
    /\ pc' = "claudeReturned"
    /\ UNCHANGED <<request, env, message, senderInfo, context, signals, original,
                   response>>

\* lines 158-182: analyzeWithClaude throws: fetch rejects or the response is
\* not ok (line 177), or response.json() rejects or the reply has no text
\* (line 182)
ClaudeFails ==
    /\ pc \in {"claudeFetch", "claudeBody"}
    /\ calls' = [calls EXCEPT ![Len(calls)].state = "rejected"]
    /\ pc' = "claudeRejected"
    /\ UNCHANGED <<request, env, message, senderInfo, context, text, signals,
                   result, original, response>>

\* lines 341-347: POST resumes in the catch block of the Claude call and
\* calls the next analyzer
CatchClaude ==
    /\ pc = "claudeRejected"
    /\ IF env.openai
       THEN /\ pc' = "openaiFetch"
            /\ calls' = Append(calls, [name |-> "openai", state |-> "pending"])
            /\ UNCHANGED <<signals, result>>
       ELSE /\ pc' = "fallbackReturned"
            /\ signals' = DetectSignals(message)
            /\ result' = analyzeWithFallback(message, senderInfo, context)
            /\ calls' = Append(calls, [name |-> "fallback", state |-> "resolved"])
    /\ UNCHANGED <<request, env, message, senderInfo, context, text, original,
                   response>>

\* lines 198-225: fetch resolved with an ok response; analyzeWithOpenAI goes
\* on to its await of response.json()
OpenAIFetched ==
    /\ pc = "openaiFetch"
    /\ pc' = "openaiBody"
    /\ UNCHANGED <<request, env, message, senderInfo, context, text, signals,
                   result, original, calls, response>>

\* lines 225-228: response.json() resolved; the text is taken from the reply
\* and parsed, and analyzeWithOpenAI returns the result
OpenAIReplies ==
    /\ pc = "openaiBody"
    /\ \E t \in ProviderTexts :
           /\ text' = t
           /\ result' = parseAnalysisResponse(t)
    /\ calls' = [calls EXCEPT ![Len(calls)].state = "resolved"]
    /\ pc' = "openaiReturned"
    /\ UNCHANGED <<request, env, message, senderInfo, context, signals, original,
                   response>>

\* lines 198-226: analyzeWithOpenAI throws, as analyzeWithClaude does
OpenAIFails ==
    /\ pc \in {"openaiFetch", "openaiBody"}
    /\ calls' = [calls EXCEPT ![Len(calls)].state = "rejected"]
    /\ pc' = "openaiRejected"
    /\ UNCHANGED <<request, env, message, senderInfo, context, text, signals,
                   result, original, response>>

\* lines 352-355: POST resumes in the catch block of the OpenAI call made
\* at line 351 and runs the fallback analyzer
CatchOpenAI ==
    /\ pc = "openaiRejected"
    /\ calls[1].name = "openai"
    /\ pc' = "fallbackReturned"
    /\ signals' = DetectSignals(message)
    /\ result' = analyzeWithFallback(message, senderInfo, context)
    /\ calls' = Append(calls, [name |-> "fallback", state |-> "resolved"])
    /\ UNCHANGED <<request, env, message, senderInfo, context, text, original,
                   response>>

\* lines 361-366: the OpenAI call made at line 344, inside the catch block
\* of the Claude call, rejected; POST resumes in the outer catch
OuterCatch ==
    /\ pc = "openaiRejected"
    /\ calls[1].name = "claude"
    /\ response' = ErrorResponse(500, "Failed to analyze message")
    /\ pc' = "done"
    /\ UNCHANGED <<request, env, message, senderInfo, context, text, signals,
                   result, original, calls>>

\* line 360: POST resumes from its await with the analyzer's result and
\* answers with it
SendResult ==
    /\ pc \in {"claudeReturned", "openaiReturned", "fallbackReturned"}
    /\ response' = OkResponse(result)
    /\ pc' = "done"
    /\ UNCHANGED <<request, env, message, senderInfo, context, text, signals,
                   result, original, calls>>

Next ==
    \/ RejectRequest
    \/ AcceptRequest
    \/ ClaudeFetched
    \/ ClaudeReplies
    \/ ClaudeFails
    \/ CatchClaude
    \/ OpenAIFetched
    \/ OpenAIReplies
    \/ OpenAIFails
    \/ CatchOpenAI
    \/ OuterCatch
    \/ SendResult

Spec == HandlerInit /\ [][Next]_vars

\* the analyzers called so far, by name
CallNames == [i \in 1..Len(calls) |-> calls[i].name]

\* C2 as stated: providers are tried in priority order, Claude before
\* OpenAI, and whenever the request is over with no provider configured or
\* every attempted provider failed, the fallback analyzer was run and the
\* response carries its result; a provider failure never ends the request
\* with an error response while the fallback has not been run.
C2_FallbackOnProviderFailure ==
    /\ CallNames \in {<<>>, <<"claude">>, <<"openai">>, <<"fallback">>,
                      <<"claude", "openai">>, <<"claude", "fallback">>,
                      <<"openai", "fallback">>, <<"claude", "openai", "fallback">>}
    /\ (/\ pc = "done"
        /\ ValidRequest
        /\ \A i \in 1..Len(calls) :
               calls[i].name # "fallback" => calls[i].state = "rejected")
       => /\ Len(calls) > 0
          /\ calls[Len(calls)].name = "fallback"
          /\ response = OkResponse(result)
          /\ response.status # 500

=============================================================================
